---- MODULE Spec2Model ----
(***************************************************************************)
(* claude-session-search: the session scanner (scanSessions and its        *)
(* helpers), the App component that loads the corpus, and the SearchView   *)
(* ranking effect.                                                         *)
(*                                                                         *)
(* Strings are sequences of one-character strings, so that trim,           *)
(* toLowerCase, startsWith, includes and split are computed as the code    *)
(* computes them.  An optional field that the code only tests for          *)
(* truthiness (cwd, text, thinking) is the empty string when absent.       *)
(***************************************************************************)
EXTENDS Integers, Sequences, FiniteSets, TLC

\* ------------------------------------------------------------------------
\* Bounds of the model
\* ------------------------------------------------------------------------
\* Session files in the store of the scanner specification (SpecScan).
MaxScanFiles == 2
\* Session files in the store of the application specification (Spec).
MaxFiles == 3
\* Characters in the search box.
MaxQueryLen == 2
\* Session files in the store of the navigation specification (SpecNav).
MaxNavFiles == 6
\* Entries with text in a session shown in the detail view.
MaxMessages == 6
\* Characters of a path given to calculatePathDistance (SpecDistance).
MaxPathLen == 4
\* Content blocks of a message given to extractTextContent (SpecExtract).
MaxBlocks == 3
\* Entries of a session whose messages are counted (SpecCount).
MaxEntries == 2
\* Characters of a project directory name (SpecSession).
MaxNameLen == 6

\* ------------------------------------------------------------------------
\* String primitives (JavaScript String.prototype)
\* ------------------------------------------------------------------------
Uppers == <<"A", "B", "C", "D", "E", "F", "G", "H", "I", "J", "K", "L", "M", "N", "O", "P", "Q", "R", "S", "T", "U", "V", "W", "X", "Y", "Z">>
Lowers == <<"a", "b", "c", "d", "e", "f", "g", "h", "i", "j", "k", "l", "m", "n", "o", "p", "q", "r", "s", "t", "u", "v", "w", "x", "y", "z">>

IsSpace(c) == c \in {" ", "\n", "\t"}

LowerChar(c) ==
    IF \E i \in 1..Len(Uppers) : Uppers[i] = c
    THEN Lowers[CHOOSE i \in 1..Len(Uppers) : Uppers[i] = c]
    ELSE c

ToLowerCase(s) == [i \in 1..Len(s) |-> LowerChar(s[i])]

RECURSIVE TrimStart(_)
TrimStart(s) ==
    IF s = <<>> \/ ~IsSpace(Head(s)) THEN s ELSE TrimStart(Tail(s))

RECURSIVE TrimEnd(_)
TrimEnd(s) ==
    IF s = <<>> \/ ~IsSpace(s[Len(s)]) THEN s ELSE TrimEnd(SubSeq(s, 1, Len(s) - 1))

Trim(s) == TrimEnd(TrimStart(s))

StartsWith(s, p) == Len(s) >= Len(p) /\ SubSeq(s, 1, Len(p)) = p

EndsWith(s, p) == Len(s) >= Len(p) /\ SubSeq(s, Len(s) - Len(p) + 1, Len(s)) = p

Includes(s, p) == \E i \in 1..(Len(s) - Len(p) + 1) : SubSeq(s, i, i + Len(p) - 1) = p

\* s.replace(p, ''): the first occurrence of p removed.
RemoveFirst(s, p) ==
    IF Includes(s, p)
    THEN LET i == CHOOSE k \in 1..(Len(s) - Len(p) + 1) :
                    /\ SubSeq(s, k, k + Len(p) - 1) = p
                    /\ \A j \in 1..(k - 1) : SubSeq(s, j, j + Len(p) - 1) # p
         IN  SubSeq(s, 1, i - 1) \o SubSeq(s, i + Len(p), Len(s))
    ELSE s

\* parts.join(sep)
RECURSIVE Join(_, _)
Join(parts, sep) ==
    IF parts = <<>> THEN <<>>
    ELSE IF Len(parts) = 1 THEN parts[1]
    ELSE parts[1] \o sep \o Join(Tail(parts), sep)

\* s.split('/').filter(p => p): the non-empty segments of a path.
RECURSIVE SplitSegments(_, _)
SplitSegments(s, cur) ==
    IF s = <<>> THEN (IF cur = <<>> THEN <<>> ELSE <<cur>>)
    ELSE IF Head(s) = "/"
         THEN (IF cur = <<>> THEN <<>> ELSE <<cur>>) \o SplitSegments(Tail(s), <<>>)
         ELSE SplitSegments(Tail(s), Append(cur, Head(s)))

\* Mutant: s.split('/') without the filter: empty segments are kept.
RECURSIVE SplitAll(_, _)
SplitAll(s, cur) ==
    IF s = <<>> THEN <<cur>>
    ELSE IF Head(s) = "/" THEN <<cur>> \o SplitAll(Tail(s), <<>>)
    ELSE SplitAll(Tail(s), Append(cur, Head(s)))

PathPartsKeepEmpty(path) == SplitAll(path, <<>>)

PathParts(path) == SplitSegments(path, <<>>)

\* ------------------------------------------------------------------------
\* Literals of the scanner
\* ------------------------------------------------------------------------
SentinelWarmup == <<"w", "a", "r", "m", "u", "p">>
SentinelClaim == <<"c", "l", "a", "i", "m">>
MarkCommandMessage == <<"<", "c", "o", "m", "m", "a", "n", "d", "-", "m", "e", "s", "s", "a", "g", "e", ">">>
MarkCommandName == <<"<", "c", "o", "m", "m", "a", "n", "d", "-", "n", "a", "m", "e", ">">>
MarkHooks == <<"\"", "h", "o", "o", "k", "s", "\"">>
ExtJsonl == <<".", "j", "s", "o", "n", "l">>
\* Messages shorter than this are skipped.
MinMessageLength == 3

\* ------------------------------------------------------------------------
\* SessionMessage: one parsed line.  content is a string, an array of
\* content blocks, or absent ("none").
\* ------------------------------------------------------------------------
NoContent == [kind |-> "none", text |-> <<>>, items |-> <<>>]
StrContent(s) == [kind |-> "string", text |-> s, items |-> <<>>]
ArrContent(items) == [kind |-> "array", text |-> <<>>, items |-> items]
Block(type, text, thinking) == [type |-> type, text |-> text, thinking |-> thinking]

\* timestamp is <<>> when the entry has none, <<t>> otherwise.
Message(type, content, timestamp, cwd) ==
    [type |-> type, content |-> content, timestamp |-> timestamp, cwd |-> cwd]

\* JavaScript truthiness of msg.message?.content: a non-empty string or any
\* array.
Truthy(content) ==
    \/ content.kind = "array"
    \/ content.kind = "string" /\ content.text # <<>>

BlockText(item) ==
    IF item.type = "text" /\ item.text # <<>> THEN item.text
    ELSE IF item.type = "thinking" /\ item.thinking # <<>> THEN item.thinking
    ELSE <<>>

extractTextContent(content) ==
    IF content.kind = "string" THEN content.text
    ELSE IF content.kind = "array"
         THEN Join([i \in 1..Len(content.items) |-> BlockText(content.items[i])], <<" ">>)
         ELSE <<>>

\* Mutant: the name decoded in full, every '-' read as a path separator.
pathToDirectoryDecoded(projectName) ==
    [i \in 1..Len(projectName) |-> IF projectName[i] = "-" THEN "/" ELSE projectName[i]]

pathToDirectory(projectName) ==
    IF StartsWith(projectName, <<"-">>) THEN SubSeq(projectName, 2, Len(projectName))
    ELSE projectName

\* Mutant: only the steps up from the first path are counted.
calculatePathDistanceUpOnly(from, to) ==
    LET fromParts == PathParts(from)
        toParts == PathParts(to)
        minLen == IF Len(fromParts) < Len(toParts) THEN Len(fromParts) ELSE Len(toParts)
        agree(k) == \A i \in 1..k : fromParts[i] = toParts[i]
        commonLength == CHOOSE k \in 0..minLen :
                            agree(k) /\ (k = minLen \/ fromParts[k + 1] # toParts[k + 1])
    IN  Len(fromParts) - commonLength

calculatePathDistance(from, to) ==
    LET fromParts == PathParts(from)
        toParts == PathParts(to)
        minLen == IF Len(fromParts) < Len(toParts) THEN Len(fromParts) ELSE Len(toParts)
        \* the loop breaks at the first differing segment
        agree(k) == \A i \in 1..k : fromParts[i] = toParts[i]
        commonLength == CHOOSE k \in 0..minLen :
                            agree(k) /\ (k = minLen \/ fromParts[k + 1] # toParts[k + 1])
    IN  (Len(fromParts) - commonLength) + (Len(toParts) - commonLength)

\* ------------------------------------------------------------------------
\* The session store on disk, as scanSessions sees it through fs.*
\*   fs.rootExists  ~/.claude/projects exists (fs.access succeeds)
\*   fs.stray       a root entry that is no project directory: "none",
\*                  "file" (stat says not a directory) or "broken" (stat
\*                  throws)
\*   fs.files       the session files, in readdir order: each names its
\*                  project directory (an index of ProjectDirs) and holds
\*                  [ext, readable, lines]
\* A line is [json, entry]: json is "invalid" (JSON.parse throws), "null"
\* (the JSON literal null) or "object" (entry is the parsed record).
\* ------------------------------------------------------------------------
ProjDashed == <<"-", "u", "-", "a", "p", "p">>
ProjPlain == <<"n", "o", "t", "e", "s">>
ProjectDirs == <<ProjDashed, ProjPlain>>
StrayName == <<".", "D", "S">>
FileLetters == <<"a", "b", "c", "d", "e", "f", "g", "h">>

Line(entry) == [json |-> "object", entry |-> entry]
InvalidLine == [json |-> "invalid", entry |-> Message("", NoContent, <<>>, <<>>)]
NullLine == [json |-> "null", entry |-> Message("", NoContent, <<>>, <<>>)]

File(ext, readable, lines) == [ext |-> ext, readable |-> readable, lines |-> lines]

\* The files of project directory d, each with the name readdir gives it.
FilesOf(fs, d) ==
    LET mine == SelectSeq(fs.files, LAMBDA pf : pf.dir = d)
    IN  [k \in 1..Len(mine) |-> [name |-> <<FileLetters[k]>> \o mine[k].file.ext,
                                  file |-> mine[k].file]]

\* fs.readdir(claudeDir)
RootEntries(fs) ==
    LET stray == IF fs.stray = "none" THEN <<>>
                 ELSE <<[name |-> StrayName, kind |-> fs.stray, files |-> <<>>]>>
        dirs == SelectSeq([d \in 1..Len(ProjectDirs) |->
                              [name |-> ProjectDirs[d], kind |-> "dir", files |-> FilesOf(fs, d)]],
                          LAMBDA e : e.files # <<>>)
    IN  stray \o dirs

\* ------------------------------------------------------------------------
\* scanSessions
\* ------------------------------------------------------------------------
NoSession ==
    [id |-> <<>>, directory |-> <<>>, filePath |-> <<>>, firstMessage |-> <<>>,
     messages |-> <<>>, timestamp |-> 0, cwd |-> <<>>]

\* Mutant: a line that does not parse fails the whole file.
ParseLinesStrict(lines) ==
    IF \E i \in 1..Len(lines) : lines[i].json = "invalid" THEN <<>>
    ELSE LET kept == SelectSeq(lines, LAMBDA l : l.json = "object")
         IN  [i \in 1..Len(kept) |-> kept[i].entry]

\* lines.map(JSON.parse or null).filter(msg => msg !== null)
ParseLines(lines) ==
    LET kept == SelectSeq(lines, LAMBDA l : l.json = "object")
    IN  [i \in 1..Len(kept) |-> kept[i].entry]

\* The skip conditions on the first message.
SkipFirstMessage(firstMessage) ==
    LET lowerMessage == Trim(ToLowerCase(firstMessage))
    IN  \/ firstMessage = <<>>
        \/ Len(Trim(firstMessage)) = 0
        \/ lowerMessage = SentinelWarmup
        \/ lowerMessage = SentinelClaim
        \/ StartsWith(firstMessage, MarkCommandMessage)
        \/ StartsWith(firstMessage, MarkCommandName)
        \/ (StartsWith(firstMessage, <<"{">>) /\ Includes(firstMessage, MarkHooks))
        \/ Len(firstMessage) < MinMessageLength

\* Mutant: the first user message that also passes the skip conditions.
FindFirstQualifying(messages) ==
    LET hits == {i \in 1..Len(messages) :
                    /\ messages[i].type = "user"
                    /\ Truthy(messages[i].content)
                    /\ ~SkipFirstMessage(extractTextContent(messages[i].content))}
    IN  IF hits = {} THEN 0 ELSE CHOOSE i \in hits : \A j \in hits : i <= j

\* messages.find(msg => msg.type === 'user' && msg.message?.content): the
\* index of the first such message, 0 when there is none.
FindFirstUserMessage(messages) ==
    LET hits == {i \in 1..Len(messages) :
                    messages[i].type = "user" /\ Truthy(messages[i].content)}
    IN  IF hits = {} THEN 0 ELSE CHOOSE i \in hits : \A j \in hits : i <= j

\* new Date(timestamp), new Date(0) without one; as getTime().
TimestampOf(msg) == IF msg.timestamp # <<>> THEN msg.timestamp[1] ELSE 0

\* The body of the try block for one session file.  outcome is "session",
\* "skip" (a continue) or "throw" (readFile rejected).
SessionOfFile(projectDir, sessionFile, file) ==
    LET messages == ParseLines(file.lines)
        first == FindFirstUserMessage(messages)
        firstUserMessage == messages[first]
        firstMessage == extractTextContent(firstUserMessage.content)
        cwd == IF firstUserMessage.cwd # <<>> THEN firstUserMessage.cwd
               ELSE pathToDirectory(projectDir)
    IN  IF ~file.readable THEN [outcome |-> "throw", session |-> NoSession]
        ELSE IF first = 0 THEN [outcome |-> "skip", session |-> NoSession]
        ELSE IF SkipFirstMessage(firstMessage) THEN [outcome |-> "skip", session |-> NoSession]
        ELSE [outcome |-> "session",
              session |-> [id |-> RemoveFirst(sessionFile, ExtJsonl),
                           directory |-> cwd,
                           filePath |-> <<projectDir, sessionFile>>,
                           firstMessage |-> firstMessage,
                           messages |-> messages,
                           timestamp |-> TimestampOf(firstUserMessage),
                           cwd |-> cwd]]

\* Mutant: no try/catch around the file.
ProcessFileNoCatch(projectDir, sessionFile, file) ==
    SessionOfFile(projectDir, sessionFile, file)

\* try { ... } catch (error) { console.error(...) }: a throw is logged and
\* the file skipped.
ProcessFile(projectDir, sessionFile, file) ==
    LET r == SessionOfFile(projectDir, sessionFile, file)
    IN  IF r.outcome = "throw" THEN [r EXCEPT !.outcome = "logged"] ELSE r

\* for (const sessionFile of sessionFiles): from the files still to visit
\* and the result so far to the result after the loop.
RECURSIVE ScanFiles(_, _, _)
ScanFiles(projectDir, files, acc) ==
    IF files = <<>> \/ acc.raised THEN acc
    ELSE LET f == Head(files)
             r == ProcessFile(projectDir, f.name, f.file)
             path == <<projectDir, f.name>>
             read == [acc EXCEPT !.filesRead = @ \cup {path}]
         IN  ScanFiles(projectDir, Tail(files),
                 CASE r.outcome = "session" ->
                          [read EXCEPT !.sessions = Append(@, r.session)]
                   [] r.outcome = "logged" ->
                          [read EXCEPT !.logged = Append(@, f.name)]
                   [] r.outcome = "throw" -> [read EXCEPT !.raised = TRUE]
                   [] OTHER -> read)

\* for (const projectDir of projectDirs)
RECURSIVE ScanProjects(_, _)
ScanProjects(entries, acc) ==
    IF entries = <<>> \/ acc.raised THEN acc
    ELSE LET e == Head(entries)
             sessionFiles == SelectSeq(e.files, LAMBDA f : EndsWith(f.name, ExtJsonl))
         IN  IF e.kind = "broken" THEN [acc EXCEPT !.raised = TRUE]
             ELSE IF e.kind # "dir" THEN ScanProjects(Tail(entries), acc)
             ELSE ScanProjects(Tail(entries), ScanFiles(e.name, sessionFiles, acc))

\* Mutant: equal distances sorted oldest first.
CompareSessionsOldestFirst(a, b) ==
    IF a.distance # b.distance THEN a.distance - b.distance
    ELSE a.timestamp - b.timestamp

\* The comparator of the final sort: negative when a sorts before b.
CompareSessions(a, b) ==
    IF a.distance # b.distance THEN a.distance - b.distance
    ELSE b.timestamp - a.timestamp

\* Array.prototype.sort is stable: x goes after every element it does not
\* sort before.
RECURSIVE InsertSession(_, _)
InsertSession(sorted, x) ==
    IF sorted = <<>> THEN <<x>>
    ELSE IF CompareSessions(x, Head(sorted)) < 0 THEN <<x>> \o sorted
    ELSE <<Head(sorted)>> \o InsertSession(Tail(sorted), x)

RECURSIVE SortSessions(_)
SortSessions(sessions) ==
    IF sessions = <<>> THEN <<>>
    ELSE InsertSession(SortSessions(SubSeq(sessions, 1, Len(sessions) - 1)),
                       sessions[Len(sessions)])

WithDistance(currentDir, session) ==
    [id |-> session.id, directory |-> session.directory, filePath |-> session.filePath,
     firstMessage |-> session.firstMessage, messages |-> session.messages,
     timestamp |-> session.timestamp, cwd |-> session.cwd,
     distance |-> calculatePathDistance(currentDir, session.directory)]

EmptyScan ==
    [raised |-> FALSE, sessions |-> <<>>, enumerated |-> FALSE, filesRead |-> {},
     logged |-> <<>>]

\* Mutant: no fs.access check; readdir of a missing root throws.
scanSessionsNoAccessCheck(currentDir, fs) ==
    LET acc == IF fs.rootExists
               THEN ScanProjects(RootEntries(fs), [EmptyScan EXCEPT !.enumerated = TRUE])
               ELSE [EmptyScan EXCEPT !.enumerated = TRUE, !.raised = TRUE]
    IN  IF acc.raised THEN [acc EXCEPT !.sessions = <<>>]
        ELSE [acc EXCEPT !.sessions =
                  SortSessions([i \in 1..Len(acc.sessions) |->
                                   WithDistance(currentDir, acc.sessions[i])])]

\* scanSessions(currentDir) on store fs.  raised: the promise rejected.
\* enumerated, filesRead, logged record the calls made on fs and console.
scanSessions(currentDir, fs) ==
    IF ~fs.rootExists THEN EmptyScan
    ELSE LET acc == ScanProjects(RootEntries(fs), [EmptyScan EXCEPT !.enumerated = TRUE])
         IN  IF acc.raised THEN [acc EXCEPT !.sessions = <<>>]
             ELSE [acc EXCEPT !.sessions =
                       SortSessions([i \in 1..Len(acc.sessions) |->
                                        WithDistance(currentDir, acc.sessions[i])])]

\* ------------------------------------------------------------------------
\* SearchView: the ranking effect
\* ------------------------------------------------------------------------
\* Mutant: a tighter threshold, 0.3.
ThresholdTighter == 4 - 1

\* Fuse option threshold: 0.4, in tenths.
Threshold == 4
\* The weights of the combined score, in tenths: 0.7, 0.2, 0.1.
SearchWeight == 7
DistanceWeight == 2
AgeWeight == 1

\* Fuse.js is a dependency, not part of this repository.  Its score for an
\* item is a deterministic function of the query and the item's text,
\* directory and cwd, between 0 (perfect) and 1, here in tenths.  The
\* function is drawn from a family indexed by fuseSeed, fixed for a run: the
\* scores of consecutive sessions are consecutive entries of a cycle in which
\* every pair of scores occurs, shifted by the seed and by the query.
ScoreCycle == <<0, 0, 1, 0, 4, 0, 5, 1, 1, 4, 1, 5, 4, 4, 5, 5>>

QueryChars == <<" ", "a">>

CharCode(c) == CHOOSE i \in 1..Len(QueryChars) : QueryChars[i] = c

RECURSIVE QueryCode(_)
QueryCode(q) ==
    IF q = <<>> THEN 0 ELSE CharCode(Head(q)) + (Len(QueryChars) + 1) * QueryCode(Tail(q))

FuseScore(seed, q, idx) ==
    ScoreCycle[((seed + QueryCode(q) + idx) % Len(ScoreCycle)) + 1]

\* Fuse's default sortFn: by score, equal scores by index in the list.
FuseBefore(a, b) ==
    IF a.score = b.score THEN a.refIndex < b.refIndex ELSE a.score < b.score

RECURSIVE InsertResult(_, _)
InsertResult(sorted, x) ==
    IF sorted = <<>> THEN <<x>>
    ELSE IF FuseBefore(x, Head(sorted)) THEN <<x>> \o sorted
    ELSE <<Head(sorted)>> \o InsertResult(Tail(sorted), x)

RECURSIVE SortResults(_)
SortResults(rs) ==
    IF rs = <<>> THEN <<>>
    ELSE InsertResult(SortResults(SubSeq(rs, 1, Len(rs) - 1)), rs[Len(rs)])

\* new Fuse(sessions, {threshold: 0.4, includeScore: true, ...}).search(query):
\* the items whose score is within the threshold, best first, each with its
\* score and its index in sessions.
FuseSearch(seed, list, q) ==
    LET all == [i \in 1..Len(list) |->
                   [item |-> list[i], refIndex |-> i, score |-> FuseScore(seed, q, i)]]
    IN  SortResults(SelectSeq(all, LAMBDA r : r.score <= Threshold))

Max(S) == CHOOSE x \in S : \A y \in S : y <= x

\* Math.max(...sessions.map(s => s.distance || 0), 1)
MaxDistance(list) == Max({list[i].distance : i \in 1..Len(list)} \cup {1})

\* Math.max(...sessions.map(s => now - s.timestamp.getTime()), 1)
MaxAge(list, now) == Max({now - list[i].timestamp : i \in 1..Len(list)} \cup {1})

\* Mutant: the distance term is subtracted, a farther session scores better.
ScoreResultFartherBetter(r, now, maxDistance, maxAge) ==
    [item |-> r.item, refIndex |-> r.refIndex, score |-> r.score,
     num |-> SearchWeight * r.score * maxDistance * maxAge
             - DistanceWeight * 10 * r.item.distance * maxAge
             + AgeWeight * 10 * (now - r.item.timestamp) * maxDistance,
     den |-> 100 * maxDistance * maxAge]

\* Mutant: the weights of distance and age exchanged.
ScoreResultAgeHeavier(r, now, maxDistance, maxAge) ==
    [item |-> r.item, refIndex |-> r.refIndex, score |-> r.score,
     num |-> SearchWeight * r.score * maxDistance * maxAge
             + AgeWeight * 10 * r.item.distance * maxAge
             + DistanceWeight * 10 * (now - r.item.timestamp) * maxDistance,
     den |-> 100 * maxDistance * maxAge]

\* combinedScore of one result, as the fraction num / den:
\*   searchScore * 0.7 + (distance / maxDistance) * 0.2 + (age / maxAge) * 0.1
\* with searchScore in tenths, so den = 100 * maxDistance * maxAge.
ScoreResult(r, now, maxDistance, maxAge) ==
    [item |-> r.item, refIndex |-> r.refIndex, score |-> r.score,
     num |-> SearchWeight * r.score * maxDistance * maxAge
             + DistanceWeight * 10 * r.item.distance * maxAge
             + AgeWeight * 10 * (now - r.item.timestamp) * maxDistance,
     den |-> 100 * maxDistance * maxAge]

\* Mutant: a result also goes before those it ties with.
CombinedBeforeOrEqual(a, b) == a.num * b.den <= b.num * a.den

\* a.combinedScore - b.combinedScore < 0 (all results of one run share den).
CombinedBefore(a, b) == a.num * b.den < b.num * a.den

RECURSIVE InsertScored(_, _)
InsertScored(sorted, x) ==
    IF sorted = <<>> THEN <<x>>
    ELSE IF CombinedBefore(x, Head(sorted)) THEN <<x>> \o sorted
    ELSE <<Head(sorted)>> \o InsertScored(Tail(sorted), x)

\* scoredResults.sort((a, b) => a.combinedScore - b.combinedScore), stable.
RECURSIVE SortScored(_)
SortScored(rs) ==
    IF rs = <<>> THEN <<>>
    ELSE InsertScored(SortScored(SubSeq(rs, 1, Len(rs) - 1)), rs[Len(rs)])

\* Mutant: the maxima taken over the matched sessions only.
RankSessionsMatchedMaxima(seed, list, q, now) ==
    LET results == FuseSearch(seed, list, q)
        matched == [i \in 1..Len(results) |-> results[i].item]
        maxDistance == MaxDistance(matched)
        maxAge == MaxAge(matched, now)
    IN  SortScored([i \in 1..Len(results) |->
                       ScoreResult(results[i], now, maxDistance, maxAge)])

\* The scoredResults of the effect, sorted.
RankSessions(seed, list, q, now) ==
    LET results == FuseSearch(seed, list, q)
        maxDistance == MaxDistance(list)
        maxAge == MaxAge(list, now)
    IN  SortScored([i \in 1..Len(results) |->
                       ScoreResult(results[i], now, maxDistance, maxAge)])

\* Mutant: the query is not trimmed before the test.
IsEmptyQueryNoTrim(q) == q = <<>>

\* !query.trim()
IsEmptyQuery(q) == Trim(q) = <<>>

\* prev.replace(/\s*\S+\s*$/, ''): the last word goes, with the white space
\* on both sides of it; a query without a word is unchanged.
RECURSIVE DropWord(_)
DropWord(s) ==
    IF s = <<>> \/ IsSpace(s[Len(s)]) THEN s ELSE DropWord(SubSeq(s, 1, Len(s) - 1))

DeleteWordOf(q) ==
    IF TrimEnd(q) = <<>> THEN q ELSE TrimEnd(DropWord(TrimEnd(q)))

\* SearchView.getMessageCount(session), on the session's messages.
getMessageCount(messages) ==
    Len(SelectSeq(messages, LAMBDA m : m.type = "user" \/ m.type = "assistant"))

\* DetailView.hasTextContent(msg): a string that is not blank, or an array
\* with a block whose text field is not blank.
hasTextContent(msg) ==
    LET content == msg.content
    IN  IF ~Truthy(content) THEN FALSE
        ELSE IF content.kind = "string" THEN Len(Trim(content.text)) > 0
        ELSE \E i \in 1..Len(content.items) :
                 content.items[i].text # <<>> /\ Len(Trim(content.items[i].text)) > 0

\* DetailView.conversationMessages, on the session's messages.
conversationMessages(messages) ==
    SelectSeq(messages,
              LAMBDA m : (m.type = "user" \/ m.type = "assistant") /\ hasTextContent(m))

\* ------------------------------------------------------------------------
\* Inputs: message texts, directories, session files
\* ------------------------------------------------------------------------
TxtWarmup == <<"W", "a", "r", "m", "u", "p">>
TxtWarmupPadded == <<" ", "W", "A", "R", "M", "U", "P", " ">>
TxtClaim == <<"c", "l", "a", "i", "m">>
TxtBlank == <<" ", " ">>
TxtHi == <<"h", "i">>
TxtShortPadded == <<"a", "b", " ">>
TxtCommandMessage == <<"<", "c", "o", "m", "m", "a", "n", "d", "-", "m", "e", "s", "s", "a", "g", "e", ">", "x">>
TxtCommandName == <<"<", "c", "o", "m", "m", "a", "n", "d", "-", "n", "a", "m", "e", ">", "/", "x">>
TxtHooks == <<"{", "\"", "h", "o", "o", "k", "s", "\"", ":", "1", "}">>
TxtFixBug == <<"f", "i", "x", " ", "b", "u", "g">>
TxtAddTests == <<"a", "d", "d", " ", "t", "e", "s", "t", "s">>
TxtOk == <<"o", "k">>
TxtRefactor == <<"r", "e", "f", "a", "c", "t", "o", "r">>
ExtTxt == <<".", "t", "x", "t">>
DirApp == <<"/", "u", "/", "a", "p", "p">>
DirHome == <<"/", "u">>
DirDeep == <<"/", "u", "/", "a", "p", "p", "/", "x", "/", "y">>
\* Five steps from ProcessCwd: two up, three down.
DirFar == <<"/", "w", "/", "x", "/", "y">>

\* process.cwd()
ProcessCwd == DirApp
\* Values of Date.now() while the program runs; session timestamps are 3, 10
\* and 12 (one lies ahead of the clock), and 0 for an entry without one.
Clock == {10, 11}

User(text, timestamp, cwd) == Line(Message("user", StrContent(text), timestamp, cwd))
Assistant(text) == Line(Message("assistant", StrContent(text), <<11>>, <<>>))
Snapshot == Line(Message("file-history-snapshot", NoContent, <<>>, <<>>))

FileNormal == File(ExtJsonl, TRUE, <<User(TxtFixBug, <<3>>, DirApp), Assistant(TxtOk)>>)
FileWarmupThenReal ==
    File(ExtJsonl, TRUE,
         <<User(TxtWarmup, <<3>>, DirApp), Assistant(TxtOk), User(TxtFixBug, <<10>>, DirApp)>>)
FileWarmupOnly == File(ExtJsonl, TRUE, <<User(TxtWarmup, <<3>>, DirApp)>>)
FileWarmupPadded == File(ExtJsonl, TRUE, <<User(TxtWarmupPadded, <<3>>, DirApp)>>)
FileInvalidFirst ==
    File(ExtJsonl, TRUE, <<InvalidLine, User(TxtAddTests, <<10>>, DirHome), Assistant(TxtOk)>>)
FileUnreadable == File(ExtJsonl, FALSE, <<User(TxtFixBug, <<3>>, DirApp)>>)
FileShortPadded == File(ExtJsonl, TRUE, <<User(TxtShortPadded, <<3>>, DirApp)>>)
FileShort == File(ExtJsonl, TRUE, <<User(TxtHi, <<3>>, DirApp)>>)
FileBlockCommand ==
    File(ExtJsonl, TRUE,
         <<Line(Message("user",
                        ArrContent(<<Block("image", <<>>, <<>>),
                                     Block("text", TxtCommandName, <<>>)>>),
                        <<3>>, DirApp))>>)
FileCommand == File(ExtJsonl, TRUE, <<User(TxtCommandMessage, <<3>>, DirApp)>>)
FileCommandName == File(ExtJsonl, TRUE, <<User(TxtCommandName, <<3>>, DirApp)>>)
FileClaim == File(ExtJsonl, TRUE, <<User(TxtClaim, <<3>>, DirApp)>>)
FileHooks == File(ExtJsonl, TRUE, <<User(TxtHooks, <<3>>, DirApp)>>)
FileEmptyThenReal ==
    File(ExtJsonl, TRUE,
         <<Snapshot, User(<<>>, <<3>>, DirApp), NullLine, User(TxtRefactor, <<>>, <<>>)>>)
FileBlank == File(ExtJsonl, TRUE, <<User(TxtBlank, <<3>>, DirApp)>>)
FileNoUser == File(ExtJsonl, TRUE, <<Assistant(TxtOk)>>)
FileNotJsonl == File(ExtTxt, TRUE, <<User(TxtFixBug, <<3>>, DirApp)>>)
FileFuture == File(ExtJsonl, TRUE, <<User(TxtFixBug, <<12>>, DirDeep), Assistant(TxtOk)>>)
FileRecent == File(ExtJsonl, TRUE, <<User(TxtFixBug, <<10>>, DirApp), Assistant(TxtOk)>>)
FileOlder == File(ExtJsonl, TRUE, <<User(TxtAddTests, <<3>>, DirApp)>>)
FileUndated == File(ExtJsonl, TRUE, <<User(TxtRefactor, <<>>, DirApp)>>)
FileParent == File(ExtJsonl, TRUE, <<User(TxtFixBug, <<10>>, DirHome)>>)
FileFarOlder == File(ExtJsonl, TRUE, <<User(TxtFixBug, <<3>>, DirFar)>>)
FileFar == File(ExtJsonl, TRUE, <<User(TxtFixBug, <<10>>, DirFar), Assistant(TxtOk)>>)
FileFarAhead == File(ExtJsonl, TRUE, <<User(TxtFixBug, <<14>>, DirFar)>>)

ScanCatalogue ==
    {FileNormal, FileWarmupThenReal, FileWarmupOnly, FileWarmupPadded, FileInvalidFirst,
     FileUnreadable, FileShortPadded, FileShort, FileBlockCommand, FileCommand,
     FileCommandName, FileClaim, FileHooks, FileEmptyThenReal, FileBlank, FileNoUser,
     FileNotJsonl, FileFuture, FileRecent}

SearchFiles == <<FileRecent, FileOlder, FileUndated, FileFuture, FileParent>>

SearchCatalogue == {SearchFiles[i] : i \in 1..Len(SearchFiles)}

\* The stores with at most maxFiles session files drawn from files, over the
\* project directories dirs.
Stores(files, dirs, strays, maxFiles) ==
    LET placed == [dir : dirs, file : files]
        lists == UNION {[1..n -> placed] : n \in 0..maxFiles}
    IN  {[rootExists |-> TRUE, stray |-> st, files |-> fl] :
            st \in strays,
            fl \in {l \in lists : \A i \in 1..(Len(l) - 1) : l[i].dir <= l[i + 1].dir}}

MissingStore == [rootExists |-> FALSE, stray |-> "none", files |-> <<>>]

\* The stores of the application specification: one project directory with
\* at most MaxFiles files of SearchCatalogue.  The corpus is sorted by
\* (distance, timestamp), in which these files all differ but for copies of
\* one file, so which of them readdir lists first only decides their names:
\* one listing order stands for all.
SearchPlace(file) == CHOOSE i \in 1..Len(SearchFiles) : SearchFiles[i] = file

AppStores ==
    {st \in Stores(SearchCatalogue, {1}, {"none"}, MaxFiles) :
        \A i \in 1..(Len(st.files) - 1) :
            SearchPlace(st.files[i].file) <= SearchPlace(st.files[i + 1].file)}

\* The stores of the two-session scenario: one session started in ProcessCwd
\* and one five steps away, both with the same first message.
ScenarioStores ==
    {[rootExists |-> TRUE, stray |-> "none",
      files |-> <<[dir |-> 1, file |-> near], [dir |-> 1, file |-> far]>>] :
        near \in {FileRecent, FileNormal}, far \in {FileFarOlder, FileFar, FileFarAhead}}

\* ------------------------------------------------------------------------
\* State
\* ------------------------------------------------------------------------
VARIABLES
    fs,                \* the session store on disk
    fuseSeed,          \* which score function Fuse computes in this run
    rows,              \* stdout.rows, 0 when it is undefined
    sessions,          \* App: the corpus
    loading,           \* App: the scan has not finished
    error,             \* App: the message of a failed scan, "" for null
    currentView,       \* App: "search" or "detail"
    selectedSession,   \* App: <<>> for null or undefined, <<session>> otherwise
    scanLog,           \* what the scan did: [enumerated, filesRead, logged]
    query,             \* SearchView: the text of the search box
    filteredSessions,  \* SearchView: the list shown
    selectedIndex,     \* SearchView
    scrollOffset,      \* SearchView
    queryEffect,       \* the [query, sessions] effect: "idle", "pending", "done"
    effects,           \* the effects on the selection still to run: "bounds", "scroll"
    scoredResults,     \* the scoredResults of the last run of the effect
    now,               \* the Date.now() of the last ranking, 0 before the first
    detailScrollOffset,    \* DetailView: scrollOffset
    selectedMessageIndex,  \* DetailView
    call               \* a call of one function on its own: [fn, args, done, result]

vars ==
    <<fs, fuseSeed, rows, sessions, loading, error, currentView, selectedSession, scanLog,
      query, filteredSessions, selectedIndex, scrollOffset, queryEffect, effects,
      scoredResults, now, detailScrollOffset, selectedMessageIndex, call>>

appVars == <<sessions, loading, error, scanLog>>

\* What no step of the application changes (the terminal changes rows).
envVars == <<fs, fuseSeed, rows, call>>

\* DetailView's state.
detailVars == <<detailScrollOffset, selectedMessageIndex>>

\* App's view state, and the state of the view it shows in place of the
\* search view.
viewVars == <<currentView, selectedSession, detailVars>>

\* No function is called on its own: the application runs.
NoCall == [fn |-> "none", args |-> <<>>, done |-> FALSE, result |-> 0]

InitApp ==
    /\ sessions = <<>>
    /\ loading = TRUE
    /\ error = ""
    /\ currentView = "search"
    /\ selectedSession = <<>>
    /\ scanLog = [enumerated |-> FALSE, filesRead |-> {}, logged |-> <<>>]
    /\ query = <<>>
    /\ filteredSessions = <<>>
    /\ selectedIndex = 0
    /\ scrollOffset = 0
    /\ queryEffect = "idle"
    /\ effects = {}
    /\ scoredResults = <<>>
    /\ now = 0
    /\ detailScrollOffset = 0
    /\ selectedMessageIndex = 0

Init ==
    /\ fs \in AppStores
               \cup {MissingStore,
                     [rootExists |-> TRUE, stray |-> "broken", files |-> <<>>]}
    /\ fuseSeed \in 0..(Len(ScoreCycle) - 1)
    /\ rows = 0
    /\ InitApp
    /\ call = NoCall

InitScan ==
    /\ fs \in Stores(ScanCatalogue, 1..Len(ProjectDirs), {"none", "file", "broken"},
                     MaxScanFiles)
               \cup {MissingStore}
    /\ fuseSeed = 0
    /\ rows = 0
    /\ InitApp
    /\ call = NoCall

\* SearchView is rendered.
Mounted == ~loading /\ error = "" /\ sessions # <<>> /\ currentView = "search"

\* SearchView mounts: its state is initial, and every effect is to run.
MountSearchView(corpus) ==
    /\ query' = <<>>
    /\ filteredSessions' = corpus
    /\ selectedIndex' = 0
    /\ scrollOffset' = 0
    /\ queryEffect' = "pending"
    /\ effects' = {"bounds", "scroll"}

\* App's effect: loadSessions().  A rejected scan sets error; otherwise the
\* corpus is set, and when it is not empty SearchView mounts with empty query
\* and its effects to run.
LoadSessions ==
    /\ loading
    /\ LET r == scanSessions(ProcessCwd, fs)
       IN  /\ loading' = FALSE
           /\ scanLog' = [enumerated |-> r.enumerated, filesRead |-> r.filesRead,
                          logged |-> r.logged]
           /\ IF r.raised
              THEN /\ error' = "error"
                   /\ UNCHANGED <<sessions, query, filteredSessions, selectedIndex,
                                  scrollOffset, queryEffect, effects>>
              ELSE /\ sessions' = r.sessions
                   /\ UNCHANGED error
                   /\ IF r.sessions # <<>>
                      THEN MountSearchView(r.sessions)
                      ELSE UNCHANGED <<query, filteredSessions, selectedIndex, scrollOffset,
                                       queryEffect, effects>>
    /\ UNCHANGED <<envVars, viewVars, scoredResults, now>>

\* Mutant: the effect sorts the corpus array itself, matches first.
QueryEffectSortsCorpus ==
    /\ Mounted
    /\ queryEffect = "pending"
    /\ queryEffect' = "done"
    /\ selectedIndex' = 0
    /\ scrollOffset' = 0
    /\ IF IsEmptyQuery(query)
       THEN /\ filteredSessions' = sessions
            /\ scoredResults' = <<>>
            /\ UNCHANGED <<now, sessions>>
       ELSE \E t \in Clock :
                /\ t >= now
                /\ now' = t
                /\ scoredResults' = RankSessions(fuseSeed, sessions, query, t)
                /\ filteredSessions' =
                       [i \in 1..Len(scoredResults') |-> scoredResults'[i].item]
                /\ sessions' =
                       filteredSessions'
                           \o SelectSeq(sessions,
                                        LAMBDA x : \A i \in 1..Len(scoredResults') :
                                                       scoredResults'[i].item # x)
    /\ effects' = {"bounds", "scroll"}
    /\ UNCHANGED <<envVars, loading, error, scanLog, viewVars, query>>

\* Mutant: the search runs on the list shown, not on the corpus.
QueryEffectOnShown ==
    /\ Mounted
    /\ queryEffect = "pending"
    /\ queryEffect' = "done"
    /\ selectedIndex' = 0
    /\ scrollOffset' = 0
    /\ IF IsEmptyQuery(query)
       THEN /\ filteredSessions' = sessions
            /\ scoredResults' = <<>>
            /\ UNCHANGED now
       ELSE \E t \in Clock :
                /\ t >= now
                /\ now' = t
                /\ scoredResults' = RankSessions(fuseSeed, filteredSessions, query, t)
                /\ filteredSessions' =
                       [i \in 1..Len(scoredResults') |-> scoredResults'[i].item]
    /\ effects' = {"bounds", "scroll"}
    /\ UNCHANGED <<envVars, appVars, viewVars, query>>

\* The effect on [query, sessions].  It sets filteredSessions (the corpus
\* array itself for an empty query, a new array otherwise), selectedIndex and
\* scrollOffset; the effects that depend on what changed are to run next.
QueryEffect ==
    /\ Mounted
    /\ queryEffect = "pending"
    /\ queryEffect' = "done"
    /\ selectedIndex' = 0
    /\ scrollOffset' = 0
    /\ IF IsEmptyQuery(query)
       THEN /\ filteredSessions' = sessions
            /\ scoredResults' = <<>>
            /\ UNCHANGED now
       ELSE \E t \in Clock :
                /\ t >= now
                /\ now' = t
                /\ scoredResults' = RankSessions(fuseSeed, sessions, query, t)
                /\ filteredSessions' =
                       [i \in 1..Len(scoredResults') |-> scoredResults'[i].item]
    /\ LET sameArray == /\ IsEmptyQuery(query)
                        /\ filteredSessions = sessions
                        /\ scoredResults = <<>>
       IN  effects' = effects
                        \cup (IF ~sameArray \/ selectedIndex # 0 THEN {"bounds"} ELSE {})
                        \cup (IF selectedIndex # 0 THEN {"scroll"} ELSE {})
    /\ UNCHANGED <<envVars, appVars, viewVars, query>>

\* stdout?.rows || 24
DefaultRows == 24
\* Header, search box, status, footer.
UiOverhead == 8
\* Math.max(5, terminalHeight - uiOverhead)
MinVisibleRows == 5

maxVisibleRows == Max({MinVisibleRows, (IF rows = 0 THEN DefaultRows ELSE rows) - UiOverhead})

\* Math.floor(maxVisibleRows / 2)
HalfPage == maxVisibleRows \div 2

\* The effects on [filteredSessions, selectedIndex] (bounds) and on
\* [selectedIndex, maxVisibleRows] (scroll) that are to run, in one commit:
\* both read the state of the render they belong to.  They run after the
\* query effect, which the component declares first.
RunEffects ==
    /\ Mounted
    /\ queryEffect # "pending"
    /\ effects # {}
    /\ selectedIndex' =
           IF /\ "bounds" \in effects
              /\ selectedIndex >= Len(filteredSessions)
              /\ Len(filteredSessions) > 0
           THEN Len(filteredSessions) - 1
           ELSE selectedIndex
    /\ scrollOffset' =
           IF "scroll" \notin effects THEN scrollOffset
           ELSE IF selectedIndex < scrollOffset THEN selectedIndex
           ELSE IF selectedIndex >= scrollOffset + maxVisibleRows
                THEN selectedIndex - maxVisibleRows + 1
           ELSE scrollOffset
    /\ effects' = IF selectedIndex' # selectedIndex THEN {"bounds", "scroll"} ELSE {}
    /\ UNCHANGED <<envVars, appVars, viewVars, query, filteredSessions, queryEffect,
                   scoredResults, now>>

\* A key reaches useInput.  React flushes the effects of a render before it
\* renders the next update, so a key is handled with no effect pending.
KeysReady == Mounted /\ queryEffect # "pending" /\ effects = {}

\* setQuery(next) from a key handler: the effect runs again when the query
\* changed.
SetQuery(next) ==
    /\ KeysReady
    /\ query' = next
    /\ queryEffect' = IF next # query THEN "pending" ELSE queryEffect
    /\ UNCHANGED <<envVars, appVars, viewVars, filteredSessions, selectedIndex,
                   scrollOffset, effects, scoredResults, now>>

\* A printable key: setQuery(prev => prev + input)
TypeChar ==
    \E i \in 1..Len(QueryChars) :
        /\ Len(query) < MaxQueryLen
        /\ SetQuery(Append(query, QueryChars[i]))

\* Backspace or delete: setQuery(prev => prev.slice(0, -1))
Backspace == SetQuery(SubSeq(query, 1, Len(query) - 1))

\* Ctrl+W: delete word
DeleteWord == SetQuery(DeleteWordOf(query))

\* The application while the user edits the query.
Next == LoadSessions \/ QueryEffect \/ RunEffects \/ TypeChar \/ Backspace \/ DeleteWord

Spec == Init /\ [][Next]_vars

\* setSelectedIndex(next) from a key handler: the effects that depend on
\* selectedIndex run when it changed.
SetSelectedIndex(next) ==
    /\ KeysReady
    /\ selectedIndex' = next
    /\ effects' = IF next # selectedIndex THEN {"bounds", "scroll"} ELSE {}
    /\ UNCHANGED <<envVars, appVars, viewVars, query, filteredSessions, scrollOffset,
                   queryEffect, scoredResults, now>>

Min(S) == CHOOSE x \in S : \A y \in S : x <= y

\* Up arrow or Ctrl+K
KeyUp == SetSelectedIndex(Max({0, selectedIndex - 1}))

\* Down arrow or Ctrl+J
KeyDown == SetSelectedIndex(Min({Len(filteredSessions) - 1, selectedIndex + 1}))

\* Page up or Ctrl+U
PageUp == SetSelectedIndex(Max({0, selectedIndex - HalfPage}))

\* Page down or Ctrl+D
PageDown == SetSelectedIndex(Min({Len(filteredSessions) - 1, selectedIndex + HalfPage}))

\* Ctrl+G
GoTop == SetSelectedIndex(0)

\* Shift+G
GoBottom == SetSelectedIndex(Len(filteredSessions) - 1)

\* list[index] of JavaScript: undefined (here <<>>) outside the list.
At(list, index) == IF index \in 0..(Len(list) - 1) THEN <<list[index + 1]>> ELSE <<>>

\* Return: onSelectSession(filteredSessions[selectedIndex]) when the list is
\* not empty; App.handleSelectSession shows the detail view.
Enter ==
    /\ KeysReady
    /\ Len(filteredSessions) > 0
    /\ selectedSession' = At(filteredSessions, selectedIndex)
    /\ currentView' = "detail"
    /\ detailScrollOffset' = 0
    /\ selectedMessageIndex' = 0
    /\ UNCHANGED <<envVars, appVars, query, filteredSessions, selectedIndex, scrollOffset,
                   queryEffect, effects, scoredResults, now>>

\* DetailView is rendered.  Without a selected session App renders nothing
\* and no key is handled.
DetailShown == ~loading /\ currentView = "detail" /\ selectedSession # <<>>

\* Escape in the detail view: App.handleBack shows the search view, which
\* mounts anew; the state of the detail view is gone.
Escape ==
    /\ DetailShown
    /\ currentView' = "search"
    /\ MountSearchView(sessions)
    /\ detailScrollOffset' = 0
    /\ selectedMessageIndex' = 0
    /\ UNCHANGED <<envVars, appVars, selectedSession, scoredResults, now>>

\* The messages DetailView lists.
shownMessages ==
    IF selectedSession = <<>> THEN <<>>
    ELSE conversationMessages(selectedSession[1].messages)

\* Header, metadata, titles, scroll indicator, preview, footer, padding.
DetailUiOverhead == 29
\* Math.max(3, terminalHeight - uiOverhead)
MinVisibleMessages == 3

maxVisibleMessages ==
    Max({MinVisibleMessages, (IF rows = 0 THEN DefaultRows ELSE rows) - DetailUiOverhead})

maxScroll == Max({0, Len(shownMessages) - maxVisibleMessages})

\* Math.floor(maxVisibleMessages / 2)
DetailHalfPage == maxVisibleMessages \div 2

\* A key of the detail view: setSelectedMessageIndex(newIndex), and
\* setScrollOffset within its updater.
SetSelectedMessage(newIndex, newOffset) ==
    /\ DetailShown
    /\ selectedMessageIndex' = newIndex
    /\ detailScrollOffset' = newOffset
    /\ UNCHANGED <<envVars, appVars, currentView, selectedSession, query, filteredSessions,
                   selectedIndex, scrollOffset, queryEffect, effects, scoredResults, now>>

\* Mutant: down moves the selection and leaves the window where it is.
DetailKeyDownNoScroll ==
    SetSelectedMessage(Min({Len(shownMessages) - 1, selectedMessageIndex + 1}),
                       detailScrollOffset)

\* Up arrow or Ctrl+K
DetailKeyUp ==
    LET newIndex == Max({0, selectedMessageIndex - 1})
    IN  SetSelectedMessage(newIndex,
                           IF newIndex < detailScrollOffset THEN newIndex
                           ELSE detailScrollOffset)

\* Down arrow or Ctrl+J
DetailKeyDown ==
    LET newIndex == Min({Len(shownMessages) - 1, selectedMessageIndex + 1})
    IN  SetSelectedMessage(newIndex,
                           IF newIndex >= detailScrollOffset + maxVisibleMessages
                           THEN newIndex - maxVisibleMessages + 1
                           ELSE detailScrollOffset)

\* Page up or Ctrl+U
DetailPageUp ==
    LET newIndex == Max({0, selectedMessageIndex - DetailHalfPage})
    IN  SetSelectedMessage(newIndex, Max({0, newIndex}))

\* Page down or Ctrl+D
DetailPageDown ==
    LET newIndex == Min({Len(shownMessages) - 1, selectedMessageIndex + DetailHalfPage})
    IN  SetSelectedMessage(newIndex, Min({maxScroll, newIndex}))

\* Ctrl+G
DetailGoTop == SetSelectedMessage(0, 0)

\* Shift+G
DetailGoBottom == SetSelectedMessage(Len(shownMessages) - 1, maxScroll)

\* An assistant entry that only uses a tool.
ToolUse ==
    Line(Message("assistant", ArrContent(<<Block("tool_use", <<>>, <<>>)>>), <<11>>, <<>>))

\* A session file with n entries that have text, and, withTools, two that
\* have none.
DetailFile(n, withTools) ==
    File(ExtJsonl, TRUE,
         <<User(TxtFixBug, <<10>>, DirApp)>>
             \o (IF withTools THEN <<Snapshot, ToolUse>> ELSE <<>>)
             \o [i \in 1..(n - 1) |-> Assistant(TxtOk)])

\* The stores of the detail specification: one session of up to MaxMessages
\* entries with text.
DetailStores ==
    {[rootExists |-> TRUE, stray |-> "none",
      files |-> <<[dir |-> 1, file |-> DetailFile(n, withTools)]>>] :
         n \in 1..MaxMessages, withTools \in BOOLEAN}

\* Terminal heights of the detail view: unknown (3 messages fit), and two
\* under which 4 and 5 fit.
DetailRows == {0, 33, 34}

InitDetail ==
    /\ fs \in DetailStores
    /\ fuseSeed = 0
    /\ rows \in DetailRows
    /\ InitApp
    /\ call = NoCall

\* The application with the keys that open, navigate and leave the detail
\* view.
NextDetail ==
    \/ LoadSessions \/ QueryEffect \/ RunEffects
    \/ Enter \/ Escape
    \/ DetailKeyUp \/ DetailKeyDown \/ DetailPageUp \/ DetailPageDown
    \/ DetailGoTop \/ DetailGoBottom

SpecDetail == InitDetail /\ [][NextDetail]_vars

\* Terminal heights: unknown (24 is assumed), and two small ones.
TerminalRows == {0, 13, 14}

\* The terminal is resized: stdout.rows changes, and the render that reads
\* it runs the scroll effect, since maxVisibleRows is one of its
\* dependencies.  The resize may come before or after a key of the same
\* render.
Resize ==
    /\ Mounted
    /\ \E r \in TerminalRows : r # rows /\ rows' = r
    /\ effects' = effects \cup (IF maxVisibleRows' # maxVisibleRows THEN {"scroll"} ELSE {})
    /\ UNCHANGED <<fs, fuseSeed, call, appVars, viewVars, query, filteredSessions,
                   selectedIndex, scrollOffset, queryEffect, scoredResults, now>>

\* The application with every key of the search view.
NextNav ==
    \/ Next
    \/ KeyUp \/ KeyDown \/ PageUp \/ PageDown \/ GoTop \/ GoBottom
    \/ Enter \/ Escape
    \/ Resize

\* The stores of the navigation specification: up to MaxNavFiles sessions
\* of one project directory.
NavStores ==
    {[rootExists |-> TRUE, stray |-> "none",
      files |-> [i \in 1..n |-> [dir |-> 1, file |-> FileRecent]]] : n \in 1..MaxNavFiles}

\* Score functions under which queries match all, some and none of the
\* sessions of these stores.
NavSeeds == {0, 8, 11}

InitNav ==
    /\ fs \in NavStores
    /\ fuseSeed \in NavSeeds
    /\ rows \in TerminalRows
    /\ InitApp
    /\ call = NoCall

SpecNav == InitNav /\ [][NextNav]_vars

\* The application on the stores of the two-session scenario.
InitScenario ==
    /\ fs \in ScenarioStores
    /\ fuseSeed \in 0..(Len(ScoreCycle) - 1)
    /\ rows = 0
    /\ InitApp
    /\ call = NoCall

SpecScenario == InitScenario /\ [][Next]_vars

\* The application on the stores of the two-session scenario, observed: one
\* ranking of the run is recorded in call, with the query, the time and the
\* order it produced, and then whether the effect ran for another query.
InitRerank ==
    /\ fs \in ScenarioStores
    /\ fuseSeed \in 0..(Len(ScoreCycle) - 1)
    /\ rows = 0
    /\ InitApp
    /\ call = [fn |-> "rankSessions", args |-> <<>>, done |-> FALSE, result |-> <<>>,
               between |-> FALSE]

\* The observer records the ranking shown.
ObserveRanking ==
    /\ call.fn = "rankSessions"
    /\ ~call.done
    /\ Mounted
    /\ queryEffect = "done"
    /\ ~IsEmptyQuery(query)
    /\ call' = [call EXCEPT !.args = <<query, now>>, !.done = TRUE,
                            !.result = filteredSessions]
    /\ UNCHANGED <<fs, fuseSeed, rows, appVars, viewVars, query, filteredSessions,
                   selectedIndex, scrollOffset, queryEffect, effects, scoredResults, now>>

\* The observer notes that the effect has run for another query since.
ObserveOther ==
    /\ call.fn = "rankSessions"
    /\ call.done
    /\ ~call.between
    /\ Mounted
    /\ queryEffect = "done"
    /\ query # call.args[1]
    /\ call' = [call EXCEPT !.between = TRUE]
    /\ UNCHANGED <<fs, fuseSeed, rows, appVars, viewVars, query, filteredSessions,
                   selectedIndex, scrollOffset, queryEffect, effects, scoredResults, now>>

NextRerank == Next \/ ObserveRanking \/ ObserveOther

SpecRerank == InitRerank /\ [][NextRerank]_vars

NextScan == LoadSessions

SpecScan == InitScan /\ [][NextScan]_vars

\* ------------------------------------------------------------------------
\* Functions called on their own: the arguments are drawn at the start, the
\* action applies the function, the application does not run.
\* ------------------------------------------------------------------------
Idle == fs = MissingStore /\ fuseSeed = 0 /\ rows = 0 /\ InitApp

Call(fn, args) == [fn |-> fn, args |-> args, done |-> FALSE, result |-> 0]

Return(value) ==
    /\ ~call.done
    /\ call' = [call EXCEPT !.done = TRUE, !.result = value]
    /\ UNCHANGED <<fs, fuseSeed, rows, appVars, viewVars, query, filteredSessions,
                   selectedIndex, scrollOffset, queryEffect, effects, scoredResults, now>>

\* Paths: with separators at the start, at the end and doubled, and segments
\* of one or more characters.
PathChars == <<"/", "a", "b">>

Paths ==
    UNION {[1..n -> {PathChars[i] : i \in 1..Len(PathChars)}] : n \in 0..MaxPathLen}

InitDistance ==
    /\ Idle
    /\ call \in {Call("calculatePathDistance", <<from, to>>) : from \in Paths, to \in Paths}

CalculatePathDistance ==
    /\ call.fn = "calculatePathDistance"
    /\ Return(calculatePathDistance(call.args[1], call.args[2]))

NextDistance == CalculatePathDistance

SpecDistance == InitDistance /\ [][NextDistance]_vars

\* Content blocks: text (also with text ''), thinking (also without its
\* thinking field), tool use, and a tool result that carries a text field.
BlockKinds ==
    {Block("text", <<"a">>, <<>>), Block("text", <<"b">>, <<>>), Block("text", <<>>, <<>>),
     Block("thinking", <<>>, <<"t">>), Block("thinking", <<"x">>, <<>>),
     Block("tool_use", <<>>, <<>>), Block("tool_result", <<"r">>, <<>>)}

Contents ==
    {NoContent, StrContent(<<>>), StrContent(TxtHi), StrContent(TxtShortPadded)}
        \cup {ArrContent(items) : items \in UNION {[1..n -> BlockKinds] : n \in 0..MaxBlocks}}

InitExtract ==
    /\ Idle
    /\ call \in {Call("extractTextContent", <<content>>) : content \in Contents}

ExtractTextContent ==
    /\ call.fn = "extractTextContent"
    /\ Return(extractTextContent(call.args[1]))

NextExtract == ExtractTextContent

SpecExtract == InitExtract /\ [][NextExtract]_vars

\* Entries of a session: user and assistant entries with a text, a blank
\* string, a text block, a tool use only, a thinking block only or no
\* content, and a snapshot.
EntryContents ==
    {StrContent(TxtHi), StrContent(TxtBlank), ArrContent(<<Block("text", <<"a">>, <<>>)>>),
     ArrContent(<<Block("tool_use", <<>>, <<>>)>>),
     ArrContent(<<Block("thinking", <<>>, <<"t">>)>>), NoContent}

Entries ==
    {Message(type, content, <<>>, <<>>) : type \in {"user", "assistant"},
                                          content \in EntryContents}
        \cup {Message("file-history-snapshot", NoContent, <<>>, <<>>)}

EntryLists == UNION {[1..n -> Entries] : n \in 0..MaxEntries}

InitCount ==
    /\ Idle
    /\ call \in {Call(fn, <<messages>>) :
                    fn \in {"getMessageCount", "conversationMessages"},
                    messages \in EntryLists}

\* The search list computes the MSGS column of a session.
GetMessageCount ==
    /\ call.fn = "getMessageCount"
    /\ Return(getMessageCount(call.args[1]))

\* The detail view computes the messages it lists and counts.
ConversationMessages ==
    /\ call.fn = "conversationMessages"
    /\ Return(conversationMessages(call.args[1]))

\* Project directory names: '-' at the start (once or more), inside and at
\* the end, or not at all.
ProjectNames ==
    UNION {[1..n -> {"-", "a"}] : n \in 1..MaxNameLen}

\* Session files whose first user entry with content records a working
\* directory, or records none (after an entry without content that does), or
\* is filtered out.
SessionFiles == {FileNormal, FileInvalidFirst, FileEmptyThenReal, FileWarmupThenReal}

InitSession ==
    /\ Idle
    /\ call \in {Call("sessionOfFile", <<projectDir, <<"a">> \o ExtJsonl, file>>) :
                    projectDir \in ProjectNames, file \in SessionFiles}

\* The scanner builds the session of one file of one project directory.
BuildSession ==
    /\ call.fn = "sessionOfFile"
    /\ Return(SessionOfFile(call.args[1], call.args[2], call.args[3]))

NextSession == BuildSession

SpecSession == InitSession /\ [][NextSession]_vars

NextCount == GetMessageCount \/ ConversationMessages

SpecCount == InitCount /\ [][NextCount]_vars

\* ------------------------------------------------------------------------
\* Properties of the scan (specification SpecScan)
\* ------------------------------------------------------------------------
\* The scan has returned a corpus.
Scanned == ~loading /\ error = ""

\* The session files of the store in discovery order, each with its project
\* directory and its place in it.
Discovered ==
    [i \in 1..Len(fs.files) |->
        [projectDir |-> ProjectDirs[fs.files[i].dir],
         place |-> Cardinality({j \in 1..i : fs.files[j].dir = fs.files[i].dir}),
         file |-> fs.files[i].file]]

PathOf(d) == <<d.projectDir, <<FileLetters[d.place]>> \o d.file.ext>>

\* The sessions of the corpus built from discovered file d.
SessionsFrom(d) == {i \in 1..Len(sessions) : sessions[i].filePath = PathOf(d)}

\* d is a session log the scanner opens and can read.
IsLog(d) == EndsWith(<<FileLetters[d.place]>> \o d.file.ext, ExtJsonl) /\ d.file.readable

\* The entries of the valid lines, in order.
RECURSIVE ValidEntries(_)
ValidEntries(lines) ==
    IF lines = <<>> THEN <<>>
    ELSE IF Head(lines).json = "object" THEN <<Head(lines).entry>> \o ValidEntries(Tail(lines))
    ELSE ValidEntries(Tail(lines))

IsUserWithContent(e) == e.type = "user" /\ Truthy(e.content)

\* The first user entry with non-empty content of d is the sentinel "Warmup".
WarmupFirst(d) ==
    LET es == ValidEntries(d.file.lines)
    IN  \E i \in 1..Len(es) :
            /\ IsUserWithContent(es[i])
            /\ \A j \in 1..(i - 1) : ~IsUserWithContent(es[j])
            /\ extractTextContent(es[i].content) = TxtWarmup

\* The texts of the user entries of d after the first one with content that
\* pass the filter.
LaterQualifying(d) ==
    LET es == ValidEntries(d.file.lines)
    IN  {extractTextContent(es[k].content) : k \in
            {k \in 1..Len(es) :
                /\ IsUserWithContent(es[k])
                /\ \E i \in 1..(k - 1) : IsUserWithContent(es[i])
                /\ ~SkipFirstMessage(extractTextContent(es[k].content))}}

\* C1 (as amended): a log file whose first user entry with non-empty content
\* is the sentinel "Warmup" produces no session, also when a later user entry
\* passes the filter.
C1_WarmupFirstSkipsFile ==
    Scanned =>
        \A i \in 1..Len(Discovered) :
            (IsLog(Discovered[i]) /\ WarmupFirst(Discovered[i]))
                => SessionsFrom(Discovered[i]) = {}

\* C1 (as claimed): such a file with a later qualifying user entry produces a
\* session whose first message is that later entry's text.
C1_WarmupFallsThrough ==
    Scanned =>
        \A i \in 1..Len(Discovered) :
            (/\ IsLog(Discovered[i])
             /\ WarmupFirst(Discovered[i])
             /\ LaterQualifying(Discovered[i]) # {})
                => \E k \in SessionsFrom(Discovered[i]) :
                       sessions[k].firstMessage \in LaterQualifying(Discovered[i])

C1_Witness ==
    /\ Scanned
    /\ \E i \in 1..Len(Discovered) :
           /\ IsLog(Discovered[i])
           /\ WarmupFirst(Discovered[i])
           /\ LaterQualifying(Discovered[i]) # {}
           /\ \E j \in 1..Len(Discovered) : SessionsFrom(Discovered[j]) # {}

\* C2: every session of the corpus has a first message that, trimmed, is not
\* empty, has at least 3 characters, is not "warmup" or "claim" in any case,
\* does not start with a command marker and is no hook configuration.
C2_FirstMessageFiltered ==
    Scanned =>
        \A k \in 1..Len(sessions) :
            LET t == Trim(sessions[k].firstMessage)
            IN  /\ t # <<>>
                /\ Len(t) >= 3
                /\ ToLowerCase(t) \notin {SentinelWarmup, SentinelClaim}
                /\ ~StartsWith(t, MarkCommandMessage)
                /\ ~StartsWith(t, MarkCommandName)
                /\ ~(StartsWith(t, <<"{">>) /\ Includes(t, MarkHooks))

\* The place of session s in discovery order.
DiscoveryIndex(s) == CHOOSE i \in 1..Len(Discovered) : PathOf(Discovered[i]) = s.filePath

\* C3: the corpus is ordered by distance ascending, then timestamp
\* descending, and sessions equal in both keep their discovery order.
C3_CorpusOrder ==
    Scanned =>
        \A k \in 1..(Len(sessions) - 1) :
            LET s == sessions[k]
                t == sessions[k + 1]
            IN  \/ s.distance < t.distance
                \/ s.distance = t.distance /\ s.timestamp > t.timestamp
                \/ /\ s.distance = t.distance
                   /\ s.timestamp = t.timestamp
                   /\ DiscoveryIndex(s) < DiscoveryIndex(t)

\* The sort moved a session ahead of one discovered before it.
C3_Witness ==
    /\ Scanned
    /\ \E k \in 1..(Len(sessions) - 1) :
           DiscoveryIndex(sessions[k]) > DiscoveryIndex(sessions[k + 1])

\* No directory-level call of the scan fails: the root exists and every root
\* entry can be stat'ed.
DirectoriesReadable == fs.rootExists /\ fs.stray # "broken"

\* C8: a session file that cannot be read is skipped and logged; the scan
\* does not raise, and every readable file that passes the filter has its
\* session in the corpus.
C8_ReadFailureSkipped ==
    (~loading /\ DirectoriesReadable) =>
        /\ error = ""
        /\ \A i \in 1..Len(Discovered) :
               LET d == Discovered[i]
                   name == <<FileLetters[d.place]>> \o d.file.ext
               IN  /\ (EndsWith(name, ExtJsonl) /\ ~d.file.readable)
                          => SessionsFrom(d) = {}
                   /\ (IsLog(d) /\ SessionOfFile(d.projectDir, name, d.file).outcome = "session")
                          => Cardinality(SessionsFrom(d)) = 1

\* A file that cannot be read is followed by one that yields a session.
C8_Witness ==
    /\ ~loading
    /\ DirectoriesReadable
    /\ \E i, j \in 1..Len(Discovered) :
           /\ i < j
           /\ EndsWith(<<FileLetters[Discovered[i].place]>> \o Discovered[i].file.ext, ExtJsonl)
           /\ ~Discovered[i].file.readable
           /\ SessionsFrom(Discovered[j]) # {}

\* d with its lines that are not valid JSON removed.
WithoutInvalidLines(d) ==
    [d.file EXCEPT !.lines = SelectSeq(d.file.lines, LAMBDA l : l.json # "invalid")]

\* C9: a line that is not valid JSON is dropped and the rest of the file is
\* used: the file yields a session exactly when it would without the invalid
\* lines, and the session's entries are the valid entries in order.
C9_InvalidLineDropped ==
    Scanned =>
        \A i \in 1..Len(Discovered) :
            LET d == Discovered[i]
                name == <<FileLetters[d.place]>> \o d.file.ext
            IN  IsLog(d) =>
                    /\ (SessionsFrom(d) # {}) <=>
                           (SessionOfFile(d.projectDir, name, WithoutInvalidLines(d)).outcome
                                = "session")
                    /\ \A k \in SessionsFrom(d) :
                           sessions[k].messages = ValidEntries(d.file.lines)

\* A file whose first line is invalid JSON yields a session of its two valid
\* entries.
C9_Witness ==
    /\ Scanned
    /\ \E i \in 1..Len(Discovered) :
           /\ Discovered[i].file.lines # <<>>
           /\ Discovered[i].file.lines[1].json = "invalid"
           /\ \E k \in SessionsFrom(Discovered[i]) : Len(sessions[k].messages) = 2

\* C10: without the root storage directory the scan returns an empty corpus,
\* raises nothing, and neither lists a directory nor reads a file.
C10_MissingRootEmptyCorpus ==
    (~loading /\ ~fs.rootExists) =>
        /\ sessions = <<>>
        /\ error = ""
        /\ ~scanLog.enumerated
        /\ scanLog.filesRead = {}

C10_Witness == ~loading /\ ~fs.rootExists

\* ------------------------------------------------------------------------
\* Properties of the ranking (specification Spec)
\* ------------------------------------------------------------------------
\* The effect has run for the query in the box.
EffectDone == Mounted /\ queryEffect = "done"

\* The effect has ranked the corpus for the query in the box.
Ranked == EffectDone /\ Trim(query) # <<>>

\* The place in the corpus of session s.
CorpusIndex(s) == CHOOSE i \in 1..Len(sessions) : sessions[i].filePath = s.filePath

\* The match score (in tenths) of the session at place i for the query.
MatchScore(i) == FuseScore(fuseSeed, query, i)

Distances == {sessions[i].distance : i \in 1..Len(sessions)}
Ages == {now - sessions[i].timestamp : i \in 1..Len(sessions)}

\* num / den = 0.7 * score / 10 + 0.2 * (distance / maxD) + 0.1 * (age / maxA)
IsCombined(num, den, score, distance, age, maxD, maxA) ==
    /\ den # 0
    /\ num * (100 * maxD * maxA)
           = den * (7 * score * maxD * maxA + 20 * distance * maxA + 10 * age * maxD)

CombinedOf(i) ==
    LET maxD == Max(Distances \cup {1})
        maxA == Max(Ages \cup {1})
    IN  7 * MatchScore(i) * maxD * maxA
        + 20 * sessions[i].distance * maxA
        + 10 * (now - sessions[i].timestamp) * maxD

\* C5 (as amended): the ranked result is sorted ascending by combined score,
\* and two sessions with equal combined score are in the order of the fuzzy
\* search result: lower match score first, corpus order when those are equal.
C5_RankedOrder ==
    Ranked =>
        \A k \in 1..(Len(filteredSessions) - 1) :
            LET i == CorpusIndex(filteredSessions[k])
                j == CorpusIndex(filteredSessions[k + 1])
            IN  \/ CombinedOf(i) < CombinedOf(j)
                \/ /\ CombinedOf(i) = CombinedOf(j)
                   /\ \/ MatchScore(i) < MatchScore(j)
                      \/ MatchScore(i) = MatchScore(j) /\ i < j

\* C5 (as claimed): sessions with equal combined score are in corpus order.
C5_TiesInCorpusOrder ==
    Ranked =>
        \A k \in 1..(Len(filteredSessions) - 1) :
            LET i == CorpusIndex(filteredSessions[k])
                j == CorpusIndex(filteredSessions[k + 1])
            IN  \/ CombinedOf(i) < CombinedOf(j)
                \/ CombinedOf(i) = CombinedOf(j) /\ i < j

\* Two neighbours of the result have equal combined scores and different
\* match scores.
C5_Witness ==
    /\ Ranked
    /\ \E k \in 1..(Len(filteredSessions) - 1) :
           LET i == CorpusIndex(filteredSessions[k])
               j == CorpusIndex(filteredSessions[k + 1])
           IN  CombinedOf(i) = CombinedOf(j) /\ MatchScore(i) # MatchScore(j)

\* C6: when the query is empty after trimming, the list shown is the corpus
\* itself: every session once, in corpus order.
C6_EmptyQueryShowsCorpus ==
    (EffectDone /\ Trim(query) = <<>>) => filteredSessions = sessions

\* The box holds white space only, and a search for it would have excluded a
\* session.
C6_Witness ==
    /\ EffectDone
    /\ query # <<>>
    /\ Trim(query) = <<>>
    /\ \E i \in 1..Len(sessions) : MatchScore(i) > 4
    /\ Len(filteredSessions) > 1

\* C7: for a non-empty query the result holds exactly the corpus sessions
\* whose match score is at most 0.4, each once; it is empty when there is
\* none, and no error is set.
C7_ResultIsThresholdSet ==
    Ranked =>
        /\ error = ""
        /\ \A k \in 1..Len(filteredSessions) :
               \E i \in 1..Len(sessions) : filteredSessions[k] = sessions[i]
        /\ {CorpusIndex(filteredSessions[k]) : k \in 1..Len(filteredSessions)}
               = {i \in 1..Len(sessions) : MatchScore(i) <= 4}
        /\ Len(filteredSessions) = Cardinality({i \in 1..Len(sessions) : MatchScore(i) <= 4})

\* A query that matches no session of a corpus of several.
C7_Witness ==
    /\ Ranked
    /\ Len(sessions) > 1
    /\ filteredSessions = <<>>

\* Sessions i and j of the corpus have the same match score for the query and
\* the same timestamp.
SameMatchAndTime(i, j) ==
    MatchScore(i) = MatchScore(j) /\ sessions[i].timestamp = sessions[j].timestamp

\* C13: of two sessions with the same match score and the same timestamp,
\* the one with the strictly larger distance is never ranked before the other.
C13_FartherNotBefore ==
    Ranked =>
        \A k, l \in 1..Len(filteredSessions) :
            LET i == CorpusIndex(filteredSessions[k])
                j == CorpusIndex(filteredSessions[l])
            IN  (SameMatchAndTime(i, j) /\ sessions[i].distance > sessions[j].distance)
                    => k > l

\* Two such sessions are in the result, and a session of lower distance than
\* the farther one is ranked after it.
C13_Witness ==
    /\ Ranked
    /\ \E k, l, m \in 1..Len(filteredSessions) :
           LET i == CorpusIndex(filteredSessions[k])
               j == CorpusIndex(filteredSessions[l])
           IN  /\ SameMatchAndTime(i, j)
               /\ sessions[i].distance < sessions[j].distance
               /\ l < m
               /\ filteredSessions[m].distance < sessions[j].distance

\* C18: ranking never changes the corpus: after any sequence of queries the
\* corpus is the sequence of sessions the scan returned, every field and the
\* order included.
C18_CorpusUnchanged ==
    (~loading /\ error = "") => sessions = scanSessions(ProcessCwd, fs).sessions

\* After a query and then another, the result shows every session of the
\* corpus in an order that is not the corpus order.
C18_Witness ==
    /\ Ranked
    /\ Len(query) > 1
    /\ Len(filteredSessions) = Len(sessions)
    /\ \E k \in 1..(Len(filteredSessions) - 1) :
           CorpusIndex(filteredSessions[k]) > CorpusIndex(filteredSessions[k + 1])

\* ------------------------------------------------------------------------
\* Idempotence of the ranking (specification SpecRerank)
\* ------------------------------------------------------------------------
\* The corpus is ranked for the query and at the time of the recorded
\* ranking.
RankedAsRecorded ==
    /\ call.fn = "rankSessions"
    /\ call.done
    /\ Ranked
    /\ query = call.args[1]
    /\ now = call.args[2]

\* C19: ranking the corpus with the same query at the same time yields the
\* same sessions in the same order, also after the effect ran for other
\* queries in between.
C19_SameInputsSameOrder == RankedAsRecorded => filteredSessions = call.result

\* The same query is ranked again after another, and the order is one that
\* is not the corpus order.
C19_Witness ==
    /\ RankedAsRecorded
    /\ call.between
    /\ Len(filteredSessions) = 2
    /\ filteredSessions[1] = sessions[2]

\* ------------------------------------------------------------------------
\* Scenario A (specification SpecScenario)
\* ------------------------------------------------------------------------
\* The corpus has exactly two sessions, with the same first message, at
\* distances 0 and 5, and the query in the box matched both.
ScenarioRanked ==
    /\ Ranked
    /\ Len(sessions) = 2
    /\ sessions[1].firstMessage = sessions[2].firstMessage
    /\ sessions[1].distance = 0
    /\ sessions[2].distance = 5
    /\ Len(filteredSessions) = 2

\* C14 (as amended): the distance-0 session is ranked first when its match
\* score is not worse than the other's and neither timestamp lies after the
\* time of the ranking.
C14_NearFirst ==
    (/\ ScenarioRanked
     /\ MatchScore(1) <= MatchScore(2)
     /\ sessions[1].timestamp <= now
     /\ sessions[2].timestamp <= now)
        => filteredSessions[1] = sessions[1]

\* C14 (as claimed): the distance-0 session is ranked first, whatever the
\* timestamps.
C14_NearFirstAlways == ScenarioRanked => filteredSessions[1] = sessions[1]

\* The distance-0 session is the older of the two, as old as the corpus
\* gets, and matches exactly as well as the other.
C14_Witness ==
    /\ ScenarioRanked
    /\ MatchScore(1) = MatchScore(2)
    /\ sessions[1].timestamp < sessions[2].timestamp
    /\ sessions[2].timestamp = now
    /\ filteredSessions[1] = sessions[1]

\* ------------------------------------------------------------------------
\* Properties of calculatePathDistance (specification SpecDistance)
\* ------------------------------------------------------------------------
\* calculatePathDistance has returned for the two paths of the call.
DistanceDone == call.fn = "calculatePathDistance" /\ call.done

\* C11: the distance is symmetric, and zero between a path and itself.
C11_DistanceSymmetric ==
    DistanceDone =>
        /\ call.result = calculatePathDistance(call.args[2], call.args[1])
        /\ (call.args[1] = call.args[2] => call.result = 0)

\* Two paths of different depth, neither an ancestor of the other.
C11_Witness ==
    /\ DistanceDone
    /\ call.result > 0
    /\ Len(PathParts(call.args[1])) = 1
    /\ Len(PathParts(call.args[2])) = 2
    /\ PathParts(call.args[1])[1] # PathParts(call.args[2])[1]

\* The places of path p where a segment begins: a character that is no
\* separator, at the start or after a separator.
SegmentStarts(p) == {i \in 1..Len(p) : p[i] # "/" /\ (i = 1 \/ p[i - 1] = "/")}

\* The segment of p that begins at place i: up to the next separator.
SegmentAt(p, i) ==
    LET last == CHOOSE j \in i..Len(p) :
                    /\ \A k \in i..j : p[k] # "/"
                    /\ (j = Len(p) \/ p[j + 1] = "/")
    IN  SubSeq(p, i, last)

\* The non-empty segments of p, in order.
SegmentsOf(p) ==
    [n \in 1..Cardinality(SegmentStarts(p)) |->
        SegmentAt(p, CHOOSE i \in SegmentStarts(p) :
                         Cardinality({j \in SegmentStarts(p) : j <= i}) = n)]

\* The length of the longest common leading run of two segment lists.
CommonRun(a, b) ==
    Max({k \in 0..Len(a) : k <= Len(b) /\ \A i \in 1..k : a[i] = b[i]})

\* C12: the distance is the non-negative integer
\* (segments of from - common) + (segments of to - common) over the non-empty
\* segments, common being the longest common leading run; without a common
\* leading segment it is the sum of both segment counts.
C12_DistanceFormula ==
    DistanceDone =>
        LET a == SegmentsOf(call.args[1])
            b == SegmentsOf(call.args[2])
            common == CommonRun(a, b)
        IN  /\ call.result \in Nat
            /\ call.result = (Len(a) - common) + (Len(b) - common)
            /\ (common = 0 => call.result = Len(a) + Len(b))

\* A path with a doubled separator and a path with a trailing one share
\* their first segment and differ after it.
C12_Witness ==
    /\ DistanceDone
    /\ Includes(call.args[1], <<"/", "/">>)
    /\ EndsWith(call.args[2], <<"/">>)
    /\ CommonRun(SegmentsOf(call.args[1]), SegmentsOf(call.args[2])) = 1
    /\ call.result = 1

\* ------------------------------------------------------------------------
\* Properties of extractTextContent (specification SpecExtract)
\* ------------------------------------------------------------------------
\* extractTextContent has returned for the content of the call.
ExtractDone == call.fn = "extractTextContent" /\ call.done

\* The texts of the "text" and "thinking" blocks of items, in order.
TextsOf(items) ==
    LET kept == SelectSeq(items, LAMBDA b : b.type \in {"text", "thinking"})
    IN  [i \in 1..Len(kept) |->
            IF kept[i].type = "text" THEN kept[i].text ELSE kept[i].thinking]

\* C15: a string body is returned unchanged; for a sequence of blocks the
\* result is the texts of the "text" and "thinking" blocks joined by a single
\* space, blocks of other kinds adding nothing, not even a separator.
C15_OnlyTextBlocks ==
    ExtractDone =>
        LET content == call.args[1]
        IN  /\ content.kind = "string" => call.result = content.text
            /\ content.kind = "array" => call.result = Join(TextsOf(content.items), <<" ">>)

\* ------------------------------------------------------------------------
\* Properties of the message count (specification SpecCount)
\* ------------------------------------------------------------------------
\* One of the two views has computed its count for the session of the call.
CountDone == call.fn \in {"getMessageCount", "conversationMessages"} /\ call.done

\* The count the view of the call reports.
ReportedCount == IF call.fn = "getMessageCount" THEN call.result ELSE Len(call.result)

\* The user and assistant entries of messages whose extracted text is not
\* empty.
WithText(messages) ==
    {i \in 1..Len(messages) :
        /\ messages[i].type \in {"user", "assistant"}
        /\ extractTextContent(messages[i].content) # <<>>}

\* C16: the count a view reports for a session is the number of its user and
\* assistant entries whose extracted text is not empty, and the search list
\* and the detail view report the same count.
C16_MessageCount ==
    CountDone =>
        /\ ReportedCount = Cardinality(WithText(call.args[1]))
        /\ ReportedCount = getMessageCount(call.args[1])
        /\ ReportedCount = Len(conversationMessages(call.args[1]))

\* ------------------------------------------------------------------------
\* Properties of the origin directory (specification SpecSession)
\* ------------------------------------------------------------------------
\* The scanner has built a session from the file of the call.
SessionBuilt == call.fn = "sessionOfFile" /\ call.done /\ call.result.outcome = "session"

\* The first user entry with content of the file of the call.
QualifyingEntry ==
    LET es == ValidEntries(call.args[3].lines)
    IN  es[CHOOSE i \in 1..Len(es) :
               IsUserWithContent(es[i]) /\ \A j \in 1..(i - 1) : ~IsUserWithContent(es[j])]

\* C17: the origin directory is the working directory recorded on the
\* qualifying first user entry when there is one; otherwise the project
\* directory name without its first character when that is '-', and the name
\* itself when it is not.
C17_OriginDirectory ==
    SessionBuilt =>
        call.result.session.directory =
            IF QualifyingEntry.cwd # <<>> THEN QualifyingEntry.cwd
            ELSE IF Head(call.args[1]) = "-" THEN Tail(call.args[1])
            ELSE call.args[1]

\* A session without a recorded working directory in a project directory
\* whose name starts with two '-' and has one more inside.
C17_Witness ==
    /\ SessionBuilt
    /\ QualifyingEntry.cwd = <<>>
    /\ StartsWith(call.args[1], <<"-", "-", "a", "-">>)
    /\ StartsWith(call.result.session.directory, <<"-", "a", "-">>)

\* ------------------------------------------------------------------------
\* Properties of the selection (specification SpecNav)
\* ------------------------------------------------------------------------
\* C20: once effects have run, selectedIndex is never negative, and less
\* than the length of a list that is not empty.
C20_SelectionNeverNegative ==
    KeysReady =>
        /\ selectedIndex >= 0
        /\ (filteredSessions # <<>> => selectedIndex < Len(filteredSessions))

\* C21: in the search view, once effects have run, the selected row is
\* inside the displayed window and scrollOffset is not negative.
C21_SelectedRowInWindow ==
    KeysReady => /\ scrollOffset >= 0
                 /\ scrollOffset <= selectedIndex
                 /\ selectedIndex < scrollOffset + maxVisibleRows

\* ------------------------------------------------------------------------
\* The detail view (specification SpecDetail)
\* ------------------------------------------------------------------------
\* C22: in the detail view scrollOffset stays within 0..maxScroll.
C22_ScrollWithinMaxScroll ==
    DetailShown => detailScrollOffset \in 0..maxScroll

\* C23: in the detail view of a session with a conversation message, the
\* selected message index is within 0..count-1 and inside the displayed
\* window.
C23_SelectedMessageInWindow ==
    (DetailShown /\ Len(shownMessages) > 0) =>
        /\ selectedMessageIndex \in 0..(Len(shownMessages) - 1)
        /\ detailScrollOffset <= selectedMessageIndex
        /\ selectedMessageIndex < detailScrollOffset + maxVisibleMessages

\* The window has scrolled down, short of the end, and the last message
\* shown is selected, in a session that also has entries without text.
C23_Witness ==
    /\ DetailShown
    /\ Len(shownMessages) < Len(selectedSession[1].messages)
    /\ detailScrollOffset > 0
    /\ detailScrollOffset < maxScroll
    /\ selectedMessageIndex = detailScrollOffset + maxVisibleMessages - 1
====
